---- MODULE Spec2Model ----
(***************************************************************************)
(* Huffman coding (src/huffman.cpp): tree construction from a text, tree   *)
(* flattening and unflattening, text encoding and decoding, the compress   *)
(* and decompress facade, tree release and tree comparison.                *)
(*                                                                         *)
(* Tree nodes live in a heap: heap[p] is the node at address p, addresses  *)
(* are handed out in allocation order and never reused, and freed is the   *)
(* log of the addresses passed to delete.  Characters are their character  *)
(* codes, so that the ordered Map iterates its keys in ascending order.    *)
(***************************************************************************)
EXTENDS Integers, Sequences, FiniteSets, TLC

VARIABLES pc, tieBreak, heap, freed, fault, err, text, data, tree, tree2,
          output, cursor, ret

vars == <<pc, tieBreak, heap, freed, fault, err, text, data, tree, tree2,
          output, cursor, ret>>

(***************************************************************************)
(* Bounds of the model.                                                    *)
(***************************************************************************)
\* longest text drawn over the alphabet
MaxLen == 4
\* most nodes of a tree a client builds by hand
MaxNodes == 5
\* most nodes of the second tree a client builds to compare against
MaxRefNodes == 3

\* the null pointer
NULL == 0

\* 'E', 'R', 'S', 'T'
Alphabet == {69, 82, 83, 84}
\* leaf symbols of the trees built by hand: 'R', 'S', 'T'
TreeAlphabet == {82, 83, 84}
\* "STREETTEST"
STREETTEST == <<83, 84, 82, 69, 69, 84, 84, 69, 83, 84>>

Range(s) == {s[i] : i \in DOMAIN s}
Min(S) == CHOOSE x \in S : \A y \in S : x <= y
Strings(A, n) == UNION {[1..k -> A] : k \in 0..n}
Texts == Strings(Alphabet, MaxLen) \cup {STREETTEST}

(***************************************************************************)
(* Tree nodes (treenode.h).                                                *)
(***************************************************************************)
\* EncodingTreeNode(char): a leaf
Leaf(c) == [ch |-> c, zero |-> NULL, one |-> NULL]
\* EncodingTreeNode(zero, one): an interior node
Internal(z, o) == [ch |-> 0, zero |-> z, one |-> o]
isLeaf(h, p) == h[p].zero = NULL /\ h[p].one = NULL
getChar(h, p) == h[p].ch

\* the caller contract "tree is a valid well-formed encoding tree"
RECURSIVE WellFormed(_, _)
WellFormed(h, p) ==
    /\ p # NULL
    /\ \/ isLeaf(h, p)
       \/ /\ h[p].zero # NULL
          /\ h[p].one # NULL
          /\ WellFormed(h, h[p].zero)
          /\ WellFormed(h, h[p].one)

(***************************************************************************)
(* decodeText                                                              *)
(***************************************************************************)
\* descend with the two branches exchanged
descendSwapped(h, temp, bitValue) ==
    IF bitValue = 1 THEN h[temp].zero ELSE h[temp].one

\* temp = temp->one on a 1 bit, temp = temp->zero otherwise
descend(h, temp, bitValue) ==
    IF bitValue = 1 THEN h[temp].one ELSE h[temp].zero

RECURSIVE decodeLoop(_, _, _, _, _)
decodeLoop(h, root, temp, messageBits, decoded) ==
    IF messageBits = <<>>
    THEN [text |-> decoded, temp |-> temp, fault |-> FALSE]
    ELSE IF temp = NULL
    THEN [text |-> decoded, temp |-> NULL, fault |-> TRUE]
    ELSE LET next == descend(h, temp, Head(messageBits))
         IN  IF next = NULL
             THEN [text |-> decoded, temp |-> NULL, fault |-> TRUE]
             ELSE IF isLeaf(h, next)
             THEN decodeLoop(h, root, root, Tail(messageBits),
                             Append(decoded, getChar(h, next)))
             ELSE decodeLoop(h, root, next, Tail(messageBits), decoded)

decodeText(h, root, messageBits) == decodeLoop(h, root, root, messageBits, <<>>)

(***************************************************************************)
(* unflattenTree.  The two recursive calls are the arguments of one        *)
(* constructor call, so the build decides which is evaluated first:        *)
(* argOrder is "zero_first" when the zero argument is evaluated first and  *)
(* "one_first" when the one argument is.                                   *)
(***************************************************************************)
ArgOrders == {"zero_first", "one_first"}

\* new EncodingTreeNode(unflattenTree(..), unflattenTree(..)): first and
\* second are the subtrees in the order the streams were consumed
UnflattenArgs(argOrder, first, second) ==
    IF argOrder = "zero_first"
    THEN Internal(first, second)
    ELSE Internal(second, first)

RECURSIVE unflattenTree(_, _, _, _)
unflattenTree(h, treeShape, treeLeaves, argOrder) ==
    IF Len(treeShape) > 0
    THEN IF Head(treeShape) = 1
         THEN LET first == unflattenTree(h, Tail(treeShape), treeLeaves, argOrder)
                  second == unflattenTree(first.heap, first.treeShape,
                                          first.treeLeaves, argOrder)
                  h2 == Append(second.heap,
                               UnflattenArgs(argOrder, first.tree, second.tree))
              IN  [heap |-> h2, tree |-> Len(h2),
                   treeShape |-> second.treeShape,
                   treeLeaves |-> second.treeLeaves,
                   err |-> first.err \/ second.err]
         ELSE IF Len(treeLeaves) = 0
              THEN [heap |-> h, tree |-> NULL, treeShape |-> Tail(treeShape),
                    treeLeaves |-> treeLeaves, err |-> TRUE]
              ELSE [heap |-> Append(h, Leaf(Head(treeLeaves))),
                    tree |-> Len(h) + 1,
                    treeShape |-> Tail(treeShape),
                    treeLeaves |-> Tail(treeLeaves), err |-> FALSE]
    ELSE [heap |-> h, tree |-> NULL, treeShape |-> treeShape,
          treeLeaves |-> treeLeaves, err |-> FALSE]

(***************************************************************************)
(* deallocateTree: mem = [freed, fault]; fault is raised when a null or    *)
(* released node is dereferenced.                                          *)
(***************************************************************************)
\* deallocateTree that never releases a one subtree
RECURSIVE deallocateTreeLeaky(_, _, _)
deallocateTreeLeaky(h, mem, t) ==
    IF t = NULL \/ t \in Range(mem.freed)
    THEN [freed |-> mem.freed, fault |-> TRUE]
    ELSE LET m1 == IF ~isLeaf(h, t) /\ h[t].zero # NULL
                   THEN deallocateTreeLeaky(h, mem, h[t].zero) ELSE mem
         IN  [freed |-> Append(m1.freed, t), fault |-> m1.fault]

RECURSIVE deallocateTree(_, _, _)
deallocateTree(h, mem, t) ==
    IF t = NULL \/ t \in Range(mem.freed)
    THEN [freed |-> mem.freed, fault |-> TRUE]
    ELSE LET m1 == IF ~isLeaf(h, t) /\ h[t].zero # NULL
                   THEN deallocateTree(h, mem, h[t].zero) ELSE mem
             m2 == IF ~isLeaf(h, t) /\ h[t].one # NULL
                   THEN deallocateTree(h, m1, h[t].one) ELSE m1
         IN  [freed |-> Append(m2.freed, t), fault |-> m2.fault]

(***************************************************************************)
(* buildHuffmanTree                                                        *)
(***************************************************************************)
EmptyMap == [c \in {} |-> 0]

\* the frequency map loop without the increment of a key already present
RECURSIVE CountLettersNoIncrement(_, _, _)
CountLettersNoIncrement(txt, i, letterMap) ==
    IF i > Len(txt) THEN letterMap
    ELSE CountLettersNoIncrement(txt, i + 1,
             IF txt[i] \in DOMAIN letterMap
             THEN letterMap
             ELSE letterMap @@ (txt[i] :> 1))

\* the frequency map loop
RECURSIVE CountLetters(_, _, _)
CountLetters(txt, i, letterMap) ==
    IF i > Len(txt) THEN letterMap
    ELSE CountLetters(txt, i + 1,
             IF txt[i] \in DOMAIN letterMap
             THEN [letterMap EXCEPT ![txt[i]] = @ + 1]
             ELSE letterMap @@ (txt[i] :> 1))

RECURSIVE textFrequency(_, _, _)
textFrequency(h, parent, letterMap) ==
    IF isLeaf(h, parent)
    THEN letterMap[h[parent].ch]
    ELSE textFrequency(h, h[parent].one, letterMap)
         + textFrequency(h, h[parent].zero, letterMap)

\* PriorityQueue (priorityqueue.h): entries in enqueue order; the entry
\* dequeued is one of least priority, the earliest enqueued among equals
\* under "fifo" and the latest under "lifo"
TieBreaks == {"fifo", "lifo"}
enqueue(q, v, p) == Append(q, [value |-> v, priority |-> p])
FrontIndex(q, tb) ==
    CHOOSE i \in DOMAIN q : \A j \in DOMAIN q :
        \/ q[i].priority < q[j].priority
        \/ /\ q[i].priority = q[j].priority
           /\ IF tb = "fifo" THEN i <= j ELSE i >= j
Remove(q, i) == SubSeq(q, 1, i - 1) \o SubSeq(q, i + 1, Len(q))

\* for (char letter : letterMap) treeQueue.enqueue(new EncodingTreeNode(letter), ..)
RECURSIVE SeedQueue(_, _, _, _)
SeedQueue(h, q, keys, letterMap) ==
    IF keys = {} THEN [heap |-> h, queue |-> q]
    ELSE LET letter == Min(keys)
         IN  SeedQueue(Append(h, Leaf(letter)),
                       enqueue(q, Len(h) + 1, letterMap[letter]),
                       keys \ {letter}, letterMap)

\* the parent with the first tree dequeued as its one subtree
NewParentSwapped(leftNode, rightNode) == Internal(rightNode, leftNode)

\* new EncodingTreeNode(leftNode, rightNode)
NewParent(leftNode, rightNode) == Internal(leftNode, rightNode)

\* while (treeQueue.size() >= 2) { .. }
RECURSIVE MergeLoop(_, _, _, _)
MergeLoop(h, q, letterMap, tb) ==
    IF Len(q) >= 2
    THEN LET i == FrontIndex(q, tb)
             leftNode == q[i].value
             q1 == Remove(q, i)
             j == FrontIndex(q1, tb)
             rightNode == q1[j].value
             q2 == Remove(q1, j)
             h1 == Append(h, NewParent(leftNode, rightNode))
             parent == Len(h1)
             totFrequency == textFrequency(h1, parent, letterMap)
         IN  MergeLoop(h1, enqueue(q2, parent, totFrequency), letterMap, tb)
    ELSE [heap |-> h, queue |-> q]

\* err: the final dequeue of an empty queue raises the library's error
buildHuffmanTree(h, txt, tb) ==
    LET letterMap == CountLetters(txt, 1, EmptyMap)
        seeded == SeedQueue(h, <<>>, DOMAIN letterMap, letterMap)
        merged == MergeLoop(seeded.heap, seeded.queue, letterMap, tb)
    IN  IF Len(merged.queue) = 0
        THEN [heap |-> merged.heap, tree |-> NULL, err |-> TRUE]
        ELSE [heap |-> merged.heap,
              tree |-> merged.queue[FrontIndex(merged.queue, tb)].value,
              err |-> FALSE]

(***************************************************************************)
(* traverse and encodeText.  A location is a string of the characters '0'  *)
(* (48) and '1' (49).                                                      *)
(***************************************************************************)
\* letterMap[key] = value
Put(m, key, value) ==
    [k \in DOMAIN m \cup {key} |-> IF k = key THEN value ELSE m[k]]

\* letterMap[letter]: a key that is absent reads as the empty string
Lookup(m, letter) == IF letter \in DOMAIN m THEN m[letter] ELSE <<>>

RECURSIVE traverse(_, _, _, _)
traverse(h, t, location, letterMap) ==
    IF isLeaf(h, t)
    THEN Put(letterMap, getChar(h, t), location)
    ELSE LET afterZero == traverse(h, h[t].zero, Append(location, 48), letterMap)
         IN  traverse(h, h[t].one, Append(location, 49), afterZero)

\* charToInteger (strlib.h): the digit a character stands for
charToInteger(c) == c - 48

RECURSIVE encodeLoop(_, _, _)
encodeLoop(letterMap, txt, encoded) ==
    IF txt = <<>> THEN encoded
    ELSE LET location == Lookup(letterMap, Head(txt))
         IN  encodeLoop(letterMap, Tail(txt),
                 encoded \o [i \in 1..Len(location) |-> charToInteger(location[i])])

encodeText(h, t, txt) == encodeLoop(traverse(h, t, <<>>, EmptyMap), txt, <<>>)

(***************************************************************************)
(* flattenTree                                                             *)
(***************************************************************************)
RECURSIVE flattenTree(_, _, _, _)
flattenTree(h, t, treeShape, treeLeaves) ==
    IF isLeaf(h, t)
    THEN [treeShape |-> Append(treeShape, 0),
          treeLeaves |-> Append(treeLeaves, h[t].ch)]
    ELSE LET z == flattenTree(h, h[t].zero, Append(treeShape, 1), treeLeaves)
         IN  flattenTree(h, h[t].one, z.treeShape, z.treeLeaves)

(***************************************************************************)
(* compress and decompress                                                 *)
(***************************************************************************)
EmptyData == [treeShape |-> <<>>, treeLeaves |-> <<>>, messageBits |-> <<>>]

compress(h, mem, messageText, tb) ==
    IF Len(messageText) < 2
    THEN [err |-> TRUE, heap |-> h, mem |-> mem, data |-> EmptyData]
    ELSE LET built == buildHuffmanTree(h, messageText, tb)
         IN  IF built.err
             THEN [err |-> TRUE, heap |-> built.heap, mem |-> mem, data |-> EmptyData]
             ELSE LET flat == flattenTree(built.heap, built.tree, <<>>, <<>>)
                      bits == encodeText(built.heap, built.tree, messageText)
                  IN  [err |-> FALSE, heap |-> built.heap,
                       mem |-> deallocateTree(built.heap, mem, built.tree),
                       data |-> [treeShape |-> flat.treeShape,
                                 treeLeaves |-> flat.treeLeaves,
                                 messageBits |-> bits]]

decompress(h, mem, d, argOrder) ==
    LET unflat == unflattenTree(h, d.treeShape, d.treeLeaves, argOrder)
        decoded == decodeText(unflat.heap, unflat.tree, d.messageBits)
        released == deallocateTree(unflat.heap, mem, unflat.tree)
    IN  [err |-> unflat.err, heap |-> unflat.heap,
         mem |-> [freed |-> released.freed,
                  fault |-> released.fault \/ decoded.fault],
         message |-> decoded.text,
         data |-> [treeShape |-> unflat.treeShape,
                   treeLeaves |-> unflat.treeLeaves,
                   messageBits |-> <<>>]]

(***************************************************************************)
(* areEqual.  The results of the two recursive calls are not used.         *)
(***************************************************************************)
RECURSIVE areEqual(_, _, _)
areEqual(h, a, b) ==
    IF isLeaf(h, a) /\ ~isLeaf(h, b) THEN FALSE
    ELSE IF ~isLeaf(h, a) /\ isLeaf(h, b) THEN FALSE
    ELSE IF isLeaf(h, a) /\ isLeaf(h, b)
    THEN (IF getChar(h, a) # getChar(h, b) THEN FALSE ELSE TRUE)
    ELSE LET zeroResult == IF h[a].zero # NULL /\ h[b].zero # NULL
                           THEN areEqual(h, h[a].zero, h[b].zero) ELSE TRUE
             oneResult == IF h[a].one # NULL /\ h[b].one # NULL
                          THEN areEqual(h, h[a].one, h[b].one) ELSE TRUE
         IN  IF h[a].zero = NULL /\ h[b].zero # NULL
             THEN ~(h[a].zero # NULL /\ h[b].zero = NULL)
             ELSE IF h[a].one = NULL /\ h[b].one # NULL
             THEN ~(h[a].one # NULL /\ h[b].one = NULL)
             ELSE TRUE

(***************************************************************************)
(* Trees built by hand, node by node, children before their parent, as     *)
(* createExampleTree and the areEqual test build them.  A tree of n nodes  *)
(* is a heap of n nodes whose root is at address n.                        *)
(***************************************************************************)
Ptr(p, k) == IF p = NULL THEN NULL ELSE p + k
Shift(h, k) ==
    [i \in 1..Len(h) |->
        [ch |-> h[i].ch, zero |-> Ptr(h[i].zero, k), one |-> Ptr(h[i].one, k)]]

RECURSIVE TreesOfSize(_)
TreesOfSize(n) ==
    IF n = 0 THEN {<<>>}
    ELSE IF n = 1 THEN {<<Leaf(c)>> : c \in TreeAlphabet}
    ELSE UNION {
           {hl \o Shift(hr, i)
               \o <<Internal(IF i = 0 THEN NULL ELSE i,
                             IF n - 1 - i = 0 THEN NULL ELSE n - 1)>> :
               hl \in TreesOfSize(i), hr \in TreesOfSize(n - 1 - i)} :
           i \in 0..(n - 1)}

HandTrees == UNION {TreesOfSize(k) : k \in 1..MaxNodes}
RefTrees == UNION {TreesOfSize(k) : k \in 1..MaxRefNodes}

RECURSIVE LeafChars(_, _)
LeafChars(h, p) ==
    IF p = NULL THEN {}
    ELSE IF isLeaf(h, p) THEN {h[p].ch}
    ELSE LeafChars(h, h[p].zero) \cup LeafChars(h, h[p].one)

(***************************************************************************)
(* The operations a client calls.                                          *)
(***************************************************************************)
Init ==
    /\ pc = "idle"
    /\ tieBreak \in TieBreaks
    /\ heap = <<>>
    /\ freed = <<>>
    /\ fault = FALSE
    /\ err = FALSE
    /\ text = <<>>
    /\ data = EmptyData
    /\ tree = NULL
    /\ tree2 = NULL
    /\ output = <<>>
    /\ cursor = NULL
    /\ ret = FALSE

Compress ==
    /\ pc = "idle"
    /\ \E t \in Texts :
        LET r == compress(heap, [freed |-> freed, fault |-> fault], t, tieBreak)
        IN  /\ text' = t
            /\ err' = r.err
            /\ heap' = r.heap
            /\ freed' = r.mem.freed
            /\ fault' = r.mem.fault
            /\ data' = r.data
            /\ pc' = IF r.err THEN "failed" ELSE "compressed"
    /\ UNCHANGED <<tieBreak, tree, tree2, output, cursor, ret>>

Decompress ==
    /\ pc = "compressed"
    /\ \E argOrder \in ArgOrders :
        LET r == decompress(heap, [freed |-> freed, fault |-> fault], data, argOrder)
        IN  /\ err' = r.err
            /\ heap' = r.heap
            /\ freed' = r.mem.freed
            /\ fault' = r.mem.fault
            /\ data' = r.data
            /\ output' = r.message
    /\ pc' = "decompressed"
    /\ UNCHANGED <<tieBreak, text, tree, tree2, cursor, ret>>

BuildHuffmanTree ==
    /\ pc = "idle"
    /\ \E t \in Texts :
        LET r == buildHuffmanTree(heap, t, tieBreak)
        IN  /\ text' = t
            /\ err' = r.err
            /\ heap' = r.heap
            /\ tree' = r.tree
            /\ pc' = IF r.err THEN "failed" ELSE "built"
    /\ UNCHANGED <<tieBreak, freed, fault, data, tree2, output, cursor, ret>>

CreateTree ==
    /\ pc = "idle"
    /\ \E h \in HandTrees :
        /\ heap' = h
        /\ tree' = Len(h)
    /\ pc' = "built"
    /\ UNCHANGED <<tieBreak, freed, fault, err, text, data, tree2, output, cursor, ret>>

CreateReference ==
    /\ pc = "built"
    /\ \E r \in RefTrees :
        /\ heap' = heap \o Shift(r, Len(heap))
        /\ tree2' = Len(heap) + Len(r)
    /\ pc' = "referenced"
    /\ UNCHANGED <<tieBreak, freed, fault, err, text, data, tree, output, cursor, ret>>

FlattenTree ==
    /\ pc = "built"
    /\ WellFormed(heap, tree)
    /\ LET r == flattenTree(heap, tree, <<>>, <<>>)
       IN  data' = [data EXCEPT !.treeShape = r.treeShape,
                                !.treeLeaves = r.treeLeaves]
    /\ pc' = "flattened"
    /\ UNCHANGED <<tieBreak, heap, freed, fault, err, text, tree, tree2, output, cursor, ret>>

UnflattenTree ==
    /\ pc = "flattened"
    /\ \E argOrder \in ArgOrders :
        LET r == unflattenTree(heap, data.treeShape, data.treeLeaves, argOrder)
        IN  /\ heap' = r.heap
            /\ tree2' = r.tree
            /\ err' = r.err
            /\ data' = [data EXCEPT !.treeShape = r.treeShape,
                                    !.treeLeaves = r.treeLeaves]
    /\ pc' = "unflattened"
    /\ UNCHANGED <<tieBreak, freed, fault, text, tree, output, cursor, ret>>

AreEqual ==
    /\ pc \in {"unflattened", "referenced"}
    /\ ret' = areEqual(heap, tree2, tree)
    /\ pc' = "compared"
    /\ UNCHANGED <<tieBreak, heap, freed, fault, err, text, data, tree, tree2, output, cursor>>

EncodeText ==
    /\ pc = "built"
    /\ WellFormed(heap, tree)
    /\ \E t \in Texts :
        /\ Range(t) \subseteq LeafChars(heap, tree)
        /\ text' = t
        /\ data' = [data EXCEPT !.messageBits = encodeText(heap, tree, t)]
    /\ pc' = "encoded"
    /\ UNCHANGED <<tieBreak, heap, freed, fault, err, tree, tree2, output, cursor, ret>>

DecodeText ==
    /\ pc = "encoded"
    /\ LET r == decodeText(heap, tree, data.messageBits)
       IN  /\ output' = r.text
           /\ cursor' = r.temp
           /\ fault' = r.fault
    /\ data' = [data EXCEPT !.messageBits = <<>>]
    /\ pc' = "decoded"
    /\ UNCHANGED <<tieBreak, heap, freed, err, text, tree, tree2, ret>>

\* compress, decompress and buildHuffmanTree on texts
Next ==
    \/ Compress
    \/ Decompress
    \/ BuildHuffmanTree
    \/ FlattenTree
    \/ UnflattenTree
    \/ AreEqual

Spec == Init /\ [][Next]_vars

\* flatten, unflatten, encode, decode and compare on trees built by hand
\* and on trees built from texts
InitTree == Init /\ tieBreak = "fifo"

NextTree ==
    \/ CreateTree
    \/ BuildHuffmanTree
    \/ CreateReference
    \/ FlattenTree
    \/ UnflattenTree
    \/ AreEqual
    \/ EncodeText
    \/ DecodeText

SpecTree == InitTree /\ [][NextTree]_vars

(***************************************************************************)
(* Notions the properties are stated with.                                 *)
(***************************************************************************)
\* the number of distinct symbols of a text
Distinct(txt) == Cardinality(Range(txt))

\* how often c occurs in txt
Occurrences(txt, c) == Cardinality({i \in DOMAIN txt : txt[i] = c})

\* the addresses of the nodes of the tree at p
RECURSIVE Nodes(_, _)
Nodes(h, p) ==
    IF p = NULL THEN {}
    ELSE {p} \cup Nodes(h, h[p].zero) \cup Nodes(h, h[p].one)

\* the leaf symbols of the tree at p, zero branch first
RECURSIVE LeafSeq(_, _)
LeafSeq(h, p) ==
    IF p = NULL THEN <<>>
    ELSE IF isLeaf(h, p) THEN <<h[p].ch>>
    ELSE LeafSeq(h, h[p].zero) \o LeafSeq(h, h[p].one)

DistinctLeaves(h, p) == Cardinality(Range(LeafSeq(h, p))) = Len(LeafSeq(h, p))

\* structural identity of the trees at a and b
RECURSIVE StructEq(_, _, _)
StructEq(h, a, b) ==
    IF a = NULL \/ b = NULL THEN a = b
    ELSE IF isLeaf(h, a) \/ isLeaf(h, b)
    THEN isLeaf(h, a) /\ isLeaf(h, b) /\ h[a].ch = h[b].ch
    ELSE StructEq(h, h[a].zero, h[b].zero) /\ StructEq(h, h[a].one, h[b].one)

\* sum over the leaves of occurrence count times depth
RECURSIVE WeightedPathLength(_, _, _, _)
WeightedPathLength(h, p, depth, txt) ==
    IF isLeaf(h, p) THEN depth * Occurrences(txt, h[p].ch)
    ELSE WeightedPathLength(h, h[p].zero, depth + 1, txt)
         + WeightedPathLength(h, h[p].one, depth + 1, txt)

RECURSIVE Weight(_, _)
Weight(S, txt) ==
    IF S = {} THEN 0
    ELSE LET c == CHOOSE x \in S : TRUE
         IN  Occurrences(txt, c) + Weight(S \ {c}, txt)

\* the least weighted path length of a binary tree whose leaves are S:
\* the root splits S into two non-empty parts, each one level deeper
RECURSIVE MinWPL(_, _)
MinWPL(S, txt) ==
    IF Cardinality(S) <= 1 THEN 0
    ELSE Weight(S, txt)
         + Min({MinWPL(A, txt) + MinWPL(S \ A, txt) : A \in (SUBSET S) \ {{}, S}})

\* the tree at p is internal(a, internal(internal(b, c), d))
IsShapeA(h, p, a, b, c, d) ==
    /\ LeafSeq(h, p) = <<a, b, c, d>>
    /\ ~isLeaf(h, p) /\ isLeaf(h, h[p].zero)
    /\ ~isLeaf(h, h[p].one)
    /\ ~isLeaf(h, h[h[p].one].zero)
    /\ isLeaf(h, h[h[p].one].one)
    /\ WellFormed(h, p)

\* the tree at p is internal(a, internal(b, internal(c, d)))
IsShapeB(h, p, a, b, c, d) ==
    /\ LeafSeq(h, p) = <<a, b, c, d>>
    /\ ~isLeaf(h, p) /\ isLeaf(h, h[p].zero)
    /\ ~isLeaf(h, h[p].one)
    /\ isLeaf(h, h[h[p].one].zero)
    /\ ~isLeaf(h, h[h[p].one].one)
    /\ WellFormed(h, p)

(***************************************************************************)
(* Properties.                                                             *)
(***************************************************************************)

\* C1: for every text with at least two distinct symbols,
\* decompress(compress(text)) returns exactly the text.
C1_RoundTrip ==
    (pc = "decompressed" /\ Distinct(text) >= 2) => output = text

\* C2: buildHuffmanTree fails and returns no tree whenever the text has
\* fewer than two distinct symbols ("", "A", "AAAA").
C2_BuildRejectsSmallAlphabet ==
    (pc \in {"built", "failed"} /\ Distinct(text) < 2)
        => (pc = "failed" /\ err /\ tree = NULL)

\* C3: compress fails and returns no record whenever the text has fewer
\* than two distinct symbols, texts repeating one symbol included.
C3_CompressRejectsSmallAlphabet ==
    (pc \in {"compressed", "failed"} /\ Distinct(text) < 2)
        => (pc = "failed" /\ err /\ data = EmptyData)

\* C4: unflattenTree applied to the streams flattenTree produced from a
\* well-formed tree returns a tree structurally equal to it.
C4_FlattenUnflattenInverse ==
    pc = "unflattened" => StructEq(heap, tree2, tree)

\* C5: for a well-formed tree with at least two leaves and distinct leaf
\* symbols and a text over its leaves, decodeText(encodeText(text)) is the
\* text, every bit is consumed and the cursor ends at the root.
C5_EncodeDecodeInverse ==
    (/\ pc = "decoded"
     /\ Len(LeafSeq(heap, tree)) >= 2
     /\ DistinctLeaves(heap, tree))
        => /\ output = text
           /\ cursor = tree
           /\ ~fault
           /\ data.messageBits = <<>>

C5_Witness ==
    /\ pc = "decoded"
    /\ Len(LeafSeq(heap, tree)) = 4
    /\ DistinctLeaves(heap, tree)
    /\ text = STREETTEST
    /\ output = text
    /\ cursor = tree

\* C6: for a text with at least two distinct symbols the built tree has
\* exactly one leaf per distinct symbol and its weighted path length is
\* least among the binary trees with those leaves.
C6_OptimalTree ==
    (pc = "built" /\ Distinct(text) >= 2)
        => /\ WellFormed(heap, tree)
           /\ Range(LeafSeq(heap, tree)) = Range(text)
           /\ DistinctLeaves(heap, tree)
           /\ WeightedPathLength(heap, tree, 0, text) = MinWPL(Range(text), text)

C6_Witness ==
    /\ pc = "built"
    /\ text = STREETTEST
    /\ WeightedPathLength(heap, tree, 0, text) = 19

C8_AreEqualIffIdentical ==
    pc = "compared" => (ret <=> StructEq(heap, tree2, tree))

\* C9: no execution of unflattenTree builds the one child of a node before
\* its zero child (addresses are handed out in the order nodes are built).
C9_ZeroChildBuiltFirst ==
    pc = "unflattened"
        => \A p \in Nodes(heap, tree2) :
               \A a \in Nodes(heap, heap[p].zero), b \in Nodes(heap, heap[p].one) :
                   a < b

\* C10: when compress or decompress returns normally, every node allocated
\* has been released exactly once and none was used after its release.
C10_ReleasedExactlyOnce ==
    pc \in {"compressed", "decompressed"}
        => /\ ~fault
           /\ Range(freed) \subseteq DOMAIN heap
           /\ \A a \in DOMAIN heap :
                  Cardinality({i \in DOMAIN freed : freed[i] = a}) = 1

C10_Witness ==
    /\ pc = "decompressed"
    /\ text = STREETTEST
    /\ Len(heap) = 14
    /\ Len(freed) = 14

====
